---- MODULE Spec2Model ----
(***************************************************************************)
(* Model of src/lib/html-to-figma/helpers/styles.ts: the computed-style    *)
(* reader (getAppliedComputedStyles), the constraint inferencer            *)
(* (addConstraints) and the border decomposer                              *)
(* (addStrokesFromIndividualBorders, addStrokesFromBorder).                *)
(*                                                                         *)
(* CSS values are TLA+ strings, read character by character where the      *)
(* code does (includes, endsWith, trim, the border regular expression).    *)
(* Lengths are fixed-point integers in thousandths of a pixel.             *)
(***************************************************************************)
EXTENDS Integers, Sequences, FiniteSets, TLC

\* Bounds of the model.
MaxNodes == 2
MaxRuns == 2
MaxDeviations == 2
MaxCalls == 4

VARIABLES
    \* ---- addConstraints: the layer forest and the document it points into
    layers,         \* the roots handed to addConstraints, a sequence of node ids
    children,       \* children[n]: the child ids of node n, in order
    nodeType,       \* nodeType[n]: "FRAME", "TEXT" or "SVG"
    nodeRef,        \* nodeRef[n]: NoRef or a document node
    constraints,    \* constraints[n]: the pair set by addConstraints, or Unset
    data,           \* data[n]: the side-channel annotations written by setData
    sheet,          \* sheet[e]: the declared style of element e (never written)
    inlineDisplay,  \* inlineDisplay[e]: el.style.display, "" when not set
    lenient,        \* whether the host accepts the priority token "!important"
    runs,           \* number of addConstraints calls made so far
    outcome,        \* "idle", "returned" or "threw": how the last call ended
    displayBefore,  \* inlineDisplay at the start of the last call
    prevConstraints,\* constraints at the end of the call before the last one
    prevOutcome,    \* outcome of the call before the last one
    \* ---- border decomposer
    computedStyle,  \* the CSSStyleDeclaration handed to both border functions
    rect,           \* the bounding box handed to addStrokesFromIndividualBorders
    blayers,        \* the `layers` array addStrokesFromIndividualBorders pushes to
    rectNode,       \* the node addStrokesFromBorder writes strokes to
    called,         \* the border calls made so far, in order
    \* ---- getAppliedComputedStyles
    element,        \* [kind, styles, color]: the element handed to the reader
    applied,        \* the mapping returned by the last call
    readerCalls     \* number of calls made

vars == <<layers, children, nodeType, nodeRef, constraints, data, sheet,
          inlineDisplay, lenient, runs, outcome, displayBefore,
          prevConstraints, prevOutcome,
          computedStyle, rect, blayers, rectNode, called,
          element, applied, readerCalls>>

constraintVars == <<layers, children, nodeType, nodeRef, constraints, data,
                    sheet, inlineDisplay, lenient, runs, outcome,
                    displayBefore, prevConstraints, prevOutcome>>
borderVars == <<computedStyle, rect, blayers, rectNode, called>>
readerVars == <<element, applied, readerCalls>>

----------------------------------------------------------------------------
(* String primitives of the JavaScript runtime, on TLA+ strings.           *)

CharAt(s, i) == SubSeq(s, i, i)

\* String.prototype.includes
Includes(s, sub) ==
    \E i \in 1..(Len(s) - Len(sub) + 1) : SubSeq(s, i, i + Len(sub) - 1) = sub

\* String.prototype.endsWith
EndsWith(s, suffix) ==
    /\ Len(s) >= Len(suffix)
    /\ SubSeq(s, Len(s) - Len(suffix) + 1, Len(s)) = suffix

Whitespace == {" ", "\t", "\n", "\r"}
Digits == {"0", "1", "2", "3", "4", "5", "6", "7", "8", "9"}

\* String.prototype.trim
RECURSIVE TrimStart(_)
TrimStart(s) ==
    IF Len(s) > 0 /\ CharAt(s, 1) \in Whitespace
    THEN TrimStart(SubSeq(s, 2, Len(s)))
    ELSE s

RECURSIVE TrimEnd(_)
TrimEnd(s) ==
    IF Len(s) > 0 /\ CharAt(s, Len(s)) \in Whitespace
    THEN TrimEnd(SubSeq(s, 1, Len(s) - 1))
    ELSE s

Trim(s) == TrimEnd(TrimStart(s))

\* JavaScript truthiness of a string
Truthy(s) == s # ""

\* `a && b` and `a || b` on strings; the falsy results (false, "") are both
\* written "", which is how every later use of them behaves.
And(cond, s) == IF cond THEN s ELSE ""
Or(a, b) == IF Truthy(a) THEN a ELSE b

----------------------------------------------------------------------------
(* The document the layer nodes point into.                                *)

NoRef == "undefined"
Null == "null"
NoFault == "no-fault"

\* root > outer > inner > txt (a text node).  root has no parent element.
Elements == {"root", "outer", "inner"}
DocNodes == Elements \cup {"txt"}

\* `ref instanceof HTMLElement`
IsHTMLElement(ref) == ref \in Elements

\* Node.parentElement
ParentElement(ref) ==
    CASE ref = "txt" -> "inner"
      [] ref = "inner" -> "outer"
      [] ref = "outer" -> "root"
      [] OTHER -> Null

\* The CSS initial values of the properties addConstraints reads.
DefaultSheet ==
    [display |-> "block", flexDirection |-> "row",
     justifyContent |-> "normal", alignItems |-> "normal",
     textAlign |-> "start", verticalAlign |-> "baseline",
     marginLeft |-> "0px", marginRight |-> "0px",
     marginTop |-> "0px", marginBottom |-> "0px",
     position |-> "static", width |-> "auto", height |-> "auto"]

\* The used size of a box that is laid out.
UsedSize == "120px"

\* el.style.setProperty("display", "none", "!important"): CSSOM ignores a
\* call whose priority is neither "" nor "important"; a lenient host
\* applies it.  Both hosts exist, so the model keeps both.
ForceHidden(disp, el) ==
    IF lenient THEN [disp EXCEPT ![el] = "none"] ELSE disp

\* The restore left out: the element stays as the probe put it.
NoRestoreDisplay(disp, el, currentDisplay) == disp
\* el.style.display = currentDisplay
RestoreDisplay(disp, el, currentDisplay) ==
    [disp EXCEPT ![el] = currentDisplay]

\* getComputedStyle(e), read while the inline display values are `disp`.
\* The inline display wins over the declared one; width and height resolve
\* to the used size while the element generates a box and to the declared
\* value while it does not.
GetComputedStyle(disp, e) ==
    LET display == IF disp[e] # "" THEN disp[e] ELSE sheet[e].display
    IN  [sheet[e] EXCEPT
            !.display = display,
            !.width = IF display = "none" THEN @ ELSE UsedSize,
            !.height = IF display = "none" THEN @ ELSE UsedSize]

----------------------------------------------------------------------------
(* addConstraints                                                          *)

Unset == [horizontal |-> "undefined", vertical |-> "undefined"]
NoData == [position |-> "", heightType |-> "", widthType |-> ""]

\* setData(node, key, value)
SetData(d, key, value) == [d EXCEPT ![key] = value]

\* traverse(layer, cb): the node, then its children in order
RECURSIVE Traverse(_)
RECURSIVE TraverseAll(_)
Traverse(n) == <<n>> \o TraverseAll(children[n])
TraverseAll(seq) ==
    IF seq = <<>> THEN <<>>
    ELSE Traverse(Head(seq)) \o TraverseAll(Tail(seq))

\* An SVG node given the pair of the branch without ref.
WrongSvgConstraints == [horizontal |-> "SCALE", vertical |-> "MIN"]
\* child.constraints of the SVG branch
SvgConstraints == [horizontal |-> "CENTER", vertical |-> "MIN"]

\* A node without ref given the pair of the SVG branch.
WrongDefaultConstraints == [horizontal |-> "CENTER", vertical |-> "MIN"]
\* child.constraints of the branch without ref
DefaultConstraints == [horizontal |-> "SCALE", vertical |-> "MIN"]

\* The four auto-margin flags as first read from the element's style.
MarginFlags(computed) ==
    [left |-> computed.marginLeft = "auto",
     right |-> computed.marginRight = "auto",
     top |-> computed.marginTop = "auto",
     bottom |-> computed.marginBottom = "auto"]

IsInline(computed) ==
    Truthy(computed.display) /\ Includes(computed.display, "inline")

\* if (isInline) { ... }, the flags part
InlineAdjust(flags, computed, parentStyle) ==
    IF ~IsInline(computed) THEN flags
    ELSE
      LET parentTextAlign == parentStyle.textAlign
          h == IF parentTextAlign = "center"
               THEN [flags EXCEPT !.left = TRUE, !.right = TRUE]
               ELSE IF parentTextAlign = "right"
               THEN [flags EXCEPT !.left = TRUE]
               ELSE flags
      IN  IF computed.verticalAlign = "middle"
          THEN [h EXCEPT !.top = TRUE, !.bottom = TRUE]
          ELSE IF computed.verticalAlign = "bottom"
          THEN [h EXCEPT !.top = TRUE, !.bottom = FALSE]
          ELSE h

\* The signal taken from align-items for every direction other than row.
TernaryParentJustifyContent(parentStyle) ==
    And(parentStyle.display = "flex",
        IF parentStyle.flexDirection = "row"
        THEN parentStyle.justifyContent
        ELSE parentStyle.alignItems)
\* const parentJustifyContent
ParentJustifyContent(parentStyle) ==
    And(parentStyle.display = "flex",
        Or(And(parentStyle.flexDirection = "row",
               parentStyle.justifyContent),
           And(parentStyle.flexDirection = "column",
               parentStyle.alignItems)))

\* const parentAlignItems
ParentAlignItems(parentStyle) ==
    And(parentStyle.display = "flex",
        Or(And(parentStyle.flexDirection = "column",
               parentStyle.justifyContent),
           And(parentStyle.flexDirection = "row",
               parentStyle.alignItems)))

\* The end branch without `hasAutoMarginRight = false`.
KeepRightFlexAdjustH(flags, parentJustifyContent) ==
    IF parentJustifyContent = "center"
    THEN [flags EXCEPT !.left = TRUE, !.right = TRUE]
    ELSE IF Truthy(parentJustifyContent)
            /\ (Includes(parentJustifyContent, "end")
                \/ Includes(parentJustifyContent, "right"))
    THEN [flags EXCEPT !.left = TRUE]
    ELSE flags
\* The flex-parent rule on the horizontal flags
FlexAdjustH(flags, parentJustifyContent) ==
    IF parentJustifyContent = "center"
    THEN [flags EXCEPT !.left = TRUE, !.right = TRUE]
    ELSE IF Truthy(parentJustifyContent)
            /\ (Includes(parentJustifyContent, "end")
                \/ Includes(parentJustifyContent, "right"))
    THEN [flags EXCEPT !.left = TRUE, !.right = FALSE]
    ELSE flags

\* The flex-parent rule on the vertical flags
FlexAdjustV(flags, parentAlignItems) ==
    IF parentAlignItems = "center"
    THEN [flags EXCEPT !.top = TRUE, !.bottom = TRUE]
    ELSE IF Truthy(parentAlignItems)
            /\ (Includes(parentAlignItems, "end")
                \/ Includes(parentAlignItems, "bottom"))
    THEN [flags EXCEPT !.top = TRUE, !.bottom = FALSE]
    ELSE flags

\* if (child.type === "TEXT") { ... }
TextAdjust(flags, type, computed) ==
    IF type # "TEXT" THEN flags
    ELSE IF computed.textAlign = "center"
    THEN [flags EXCEPT !.left = TRUE, !.right = TRUE]
    ELSE IF computed.textAlign = "right"
    THEN [flags EXCEPT !.left = TRUE, !.right = FALSE]
    ELSE flags

\* child.constraints = { horizontal: ..., vertical: ... }
ResolveConstraints(flags) ==
    [horizontal |-> IF flags.left /\ flags.right THEN "CENTER"
                    ELSE IF flags.left THEN "MAX"
                    ELSE "SCALE",
     vertical |-> IF flags.bottom /\ flags.top THEN "CENTER"
                  ELSE IF flags.top THEN "MAX"
                  ELSE "MIN"]

\* The annotations written for one probed node, in the order of the code.
Annotate(d, computed, hasFixedWidth, hasFixedHeight) ==
    LET d1 == IF computed.position \in {"absolute", "fixed"}
              THEN SetData(d, "position", computed.position) ELSE d
        d2 == IF hasFixedHeight THEN SetData(d1, "heightType", "fixed") ELSE d1
        d3 == IF hasFixedWidth THEN SetData(d2, "widthType", "fixed") ELSE d2
    IN  IF IsInline(computed) THEN SetData(d3, "widthType", "shrink") ELSE d3

\* The body of `if (el && parent) { ... }` for node n.  st carries the
\* inline display values, the constraints and the annotations as the
\* traversal has left them; `faulty` is the element whose style resolution
\* throws during this call (NoFault: none does).
Probe(st, n, el, parent, faulty) ==
    LET currentDisplay == st.disp[el]
        hidden == ForceHidden(st.disp, el)
        probed == GetComputedStyle(hidden, el)
        hasFixedWidth ==
            Truthy(probed.width) /\ EndsWith(Trim(probed.width), "px")
        hasFixedHeight ==
            Truthy(probed.height) /\ EndsWith(Trim(probed.height), "px")
        restored == RestoreDisplay(hidden, el, currentDisplay)
        parentStyle == GetComputedStyle(restored, parent)
        \* `computed` is a live declaration: the margins read after the
        \* restore are those of the restored element, as is the re-read.
        computed == GetComputedStyle(restored, el)
        f0 == MarginFlags(computed)
        f1 == InlineAdjust(f0, computed, parentStyle)
        f2 == FlexAdjustH(f1, ParentJustifyContent(parentStyle))
        f3 == FlexAdjustV(f2, ParentAlignItems(parentStyle))
        f4 == TextAdjust(f3, nodeType[n], computed)
    IN  IF faulty = el
        THEN [st EXCEPT !.disp = hidden, !.threw = TRUE]
        ELSE IF faulty = parent
        THEN [st EXCEPT !.disp = restored, !.threw = TRUE]
        ELSE [st EXCEPT
                !.disp = restored,
                !.data[n] = Annotate(@, computed, hasFixedWidth, hasFixedHeight),
                !.cons[n] = ResolveConstraints(f4)]

\* The callback addConstraints hands to traverse, for node n.
Visit(st, n, faulty) ==
    IF nodeType[n] = "SVG"
    THEN [st EXCEPT !.cons[n] = SvgConstraints]
    ELSE
      LET ref == nodeRef[n] IN
      IF ref = NoRef
      THEN [st EXCEPT !.cons[n] = DefaultConstraints]
      ELSE
        LET el == IF IsHTMLElement(ref) THEN ref ELSE ParentElement(ref)
            parent == IF el # Null THEN ParentElement(el) ELSE Null
        IN  IF el # Null /\ parent # Null
            THEN Probe(st, n, el, parent, faulty)
            ELSE st

\* layers.forEach(layer => traverse(layer, ...)): an exception ends the walk.
RECURSIVE VisitAll(_, _, _)
VisitAll(st, seq, faulty) ==
    IF seq = <<>> \/ st.threw THEN st
    ELSE VisitAll(Visit(st, Head(seq), faulty), Tail(seq), faulty)

\* One call of addConstraints(layers).
Call(faulty) ==
    LET st0 == [disp |-> inlineDisplay, cons |-> constraints,
                data |-> data, threw |-> FALSE]
        st == VisitAll(st0, TraverseAll(layers), faulty)
    IN  /\ inlineDisplay' = st.disp
        /\ constraints' = st.cons
        /\ data' = st.data
        /\ outcome' = IF st.threw THEN "threw" ELSE "returned"
        /\ runs' = runs + 1
        /\ displayBefore' = inlineDisplay
        /\ prevConstraints' = constraints
        /\ prevOutcome' = outcome
        /\ UNCHANGED <<layers, children, nodeType, nodeRef, sheet, lenient>>
        /\ UNCHANGED borderVars
        /\ UNCHANGED readerVars

\* A call of addConstraints; style resolution may fail for outer or inner.
AddConstraints ==
    /\ runs < MaxRuns
    /\ \E faulty \in {NoFault, "outer", "inner"} : Call(faulty)

\* A single application without faults, for the claims about the pure rule.
AddConstraintsOnce ==
    /\ runs < 1
    /\ Call(NoFault)

----------------------------------------------------------------------------
(* Initial states.  Each specification starts the other components idle.   *)

NodeTypes == {"FRAME", "TEXT", "SVG"}

IdleConstraints ==
    /\ layers = <<>>
    /\ children = <<>>
    /\ nodeType = <<>>
    /\ nodeRef = <<>>
    /\ constraints = <<>>
    /\ data = <<>>
    /\ sheet = [e \in Elements |-> DefaultSheet]
    /\ inlineDisplay = [e \in Elements |-> ""]
    /\ lenient = FALSE
    /\ runs = 0
    /\ outcome = "idle"
    /\ displayBefore = inlineDisplay
    /\ prevConstraints = constraints
    /\ prevOutcome = "idle"

IdleBorders ==
    /\ computedStyle = <<>>
    /\ rect = <<>>
    /\ blayers = <<>>
    /\ rectNode = <<>>
    /\ called = <<>>

IdleReader ==
    /\ element = <<>>
    /\ applied = <<>>
    /\ readerCalls = 0

\* What is the same at the start of every addConstraints run.
FreshRun ==
    /\ constraints = [n \in DOMAIN nodeType |-> Unset]
    /\ data = [n \in DOMAIN nodeType |-> NoData]
    /\ runs = 0
    /\ outcome = "idle"
    /\ displayBefore = inlineDisplay
    /\ prevConstraints = constraints
    /\ prevOutcome = "idle"

\* The documents of the forest specification: the declared styles of
\* outer and inner and the inline display of inner.  In the first, inner
\* is inline only through its inline style; in the second, outer is a
\* centring flex container and inner carries every signal of its own.
Documents ==
    {[outer |-> DefaultSheet,
      inner |-> [DefaultSheet EXCEPT !.width = "50%"],
      innerDisplay |-> "inline-block"],
     [outer |-> [DefaultSheet EXCEPT !.display = "flex",
                                     !.justifyContent = "center",
                                     !.alignItems = "flex-end",
                                     !.textAlign = "right"],
      inner |-> [DefaultSheet EXCEPT !.display = "inline-block",
                                     !.verticalAlign = "middle",
                                     !.marginLeft = "auto",
                                     !.position = "absolute",
                                     !.width = "100px",
                                     !.textAlign = "center"],
      innerDisplay |-> ""]}

\* A forest of MaxNodes nodes, all roots or one chain, over a small document.
InitForest ==
    /\ \/ /\ layers = [i \in 1..MaxNodes |-> i]
          /\ children = [n \in 1..MaxNodes |-> <<>>]
       \/ /\ layers = <<1>>
          /\ children = [n \in 1..MaxNodes |->
                            IF n < MaxNodes THEN <<n + 1>> ELSE <<>>]
    /\ nodeType \in [1..MaxNodes -> NodeTypes]
    /\ nodeRef \in [1..MaxNodes -> {NoRef} \cup DocNodes]
    /\ \E doc \in Documents :
          /\ sheet = [e \in Elements |->
                         IF e = "outer" THEN doc.outer
                         ELSE IF e = "inner" THEN doc.inner ELSE DefaultSheet]
          /\ inlineDisplay = [e \in Elements |->
                                 IF e = "inner" THEN doc.innerDisplay ELSE ""]
    /\ lenient \in BOOLEAN
    /\ FreshRun
    /\ IdleBorders
    /\ IdleReader

\* One node backed by `inner`, whose own and parent styles range over every
\* combination of the values the rule distinguishes.
Margins == {"auto", "0px"}
Alignments == {"normal", "center", "flex-end"}
TextAligns == {"start", "center", "right"}
ParentSheets ==
    {[DefaultSheet EXCEPT !.display = d, !.flexDirection = fd,
                          !.justifyContent = jc, !.alignItems = ai,
                          !.textAlign = ta] :
        d \in {"block", "flex", "inline-flex"},
        fd \in {"row", "column", "row-reverse"},
        jc \in Alignments, ai \in Alignments, ta \in TextAligns}
OwnSheets ==
    {[DefaultSheet EXCEPT !.display = d, !.textAlign = ta,
                          !.verticalAlign = va,
                          !.marginLeft = ml, !.marginRight = mr,
                          !.marginTop = mt, !.marginBottom = mb] :
        d \in {"block", "inline-block"}, ta \in TextAligns,
        va \in {"baseline", "middle", "bottom"},
        ml \in Margins, mr \in Margins, mt \in Margins, mb \in Margins}

InitNode ==
    /\ layers = <<1>>
    /\ children = <<(<<>>)>>
    /\ nodeType \in [{1} -> NodeTypes]
    /\ nodeRef = <<"inner">>
    /\ \E o \in ParentSheets, i \in OwnSheets :
          sheet = [e \in Elements |->
                      IF e = "outer" THEN o
                      ELSE IF e = "inner" THEN i ELSE DefaultSheet]
    /\ inlineDisplay = [e \in Elements |-> ""]
    /\ lenient = TRUE
    /\ FreshRun
    /\ IdleBorders
    /\ IdleReader

Next == AddConstraints
Spec == InitForest /\ [][Next]_vars

NextNode == AddConstraintsOnce
SpecNode == InitNode /\ [][NextNode]_vars

----------------------------------------------------------------------------
(* Claims about addConstraints.                                            *)

Finished == outcome \in {"returned", "threw"}

\* Node n is one addConstraints probes: not SVG, with a ref that resolves
\* to an element that has a parent element.
Probed(n) ==
    /\ nodeType[n] # "SVG"
    /\ nodeRef[n] \in {"outer", "inner", "txt"}


\* C1: when addConstraints has returned or thrown, every element's inline
\* display value equals its value before the call; no element is left
\* force-hidden, whatever step failed.
C1_DisplayRestored ==
    Finished => inlineDisplay = displayBefore

\* C2: a second run of addConstraints on the same forest, with the styles
\* unchanged in between, leaves every node with the constraints the first
\* run gave it.
C2_Idempotent ==
    (runs >= 2 /\ outcome = "returned" /\ prevOutcome = "returned")
        => constraints = prevConstraints

\* Two runs have returned on a host that hides the probed element, and a
\* probed node carries constraints inferred from its styles.
C2_Witness ==
    /\ runs = 2
    /\ outcome = "returned"
    /\ prevOutcome = "returned"
    /\ lenient
    /\ \E n \in DOMAIN nodeType :
          /\ Probed(n)
          /\ constraints[n] \notin {Unset, [horizontal |-> "SCALE", vertical |-> "MIN"]}

\* C3 as stated: after addConstraints, every node without a ref, whatever
\* its kind, has constraints {SCALE, MIN}.
C3_NoRefDefault ==
    outcome = "returned" =>
        \A n \in DOMAIN nodeType :
            nodeRef[n] = NoRef =>
                constraints[n] = [horizontal |-> "SCALE", vertical |-> "MIN"]

\* C3 amended: after addConstraints, every node without a ref whose kind
\* is not SVG has constraints {SCALE, MIN}.
C3_NoRefNonSvgDefault ==
    outcome = "returned" =>
        \A n \in DOMAIN nodeType :
            (nodeRef[n] = NoRef /\ nodeType[n] # "SVG") =>
                constraints[n] = [horizontal |-> "SCALE", vertical |-> "MIN"]

\* A run has returned over a TEXT node without ref.
C3_Witness ==
    /\ outcome = "returned"
    /\ \E n \in DOMAIN nodeType :
          /\ nodeRef[n] = NoRef
          /\ nodeType[n] = "TEXT"
          /\ constraints[n] # Unset

\* C4: after addConstraints, every SVG node has constraints {CENTER, MIN},
\* whatever its ref and whatever the styles of its element and parent.
C4_SvgOverride ==
    outcome = "returned" =>
        \A n \in DOMAIN nodeType :
            nodeType[n] = "SVG" =>
                constraints[n] = [horizontal |-> "CENTER", vertical |-> "MIN"]

\* A run has returned over an SVG node whose element has an auto left
\* margin and a flex parent.
C4_Witness ==
    /\ outcome = "returned"
    /\ \E n \in DOMAIN nodeType :
          /\ nodeType[n] = "SVG"
          /\ nodeRef[n] = "inner"
          /\ sheet["outer"].display = "flex"
          /\ sheet["inner"].marginLeft = "auto"
          /\ constraints[n] # Unset

\* The node of the single-node forest and the styles it is resolved from.
Own == sheet["inner"]
Parent == sheet["outer"]
OwnInline == Includes(Own.display, "inline")
TextOverride == nodeType[1] = "TEXT" /\ Own.textAlign \in {"center", "right"}

EndsAxis(signal, word) == Includes(signal, "end") \/ Includes(signal, word)

\* The horizontal result of the margins and the inline adjustment alone.
MarginHorizontal ==
    LET left == \/ Own.marginLeft = "auto"
                \/ (OwnInline /\ Parent.textAlign \in {"center", "right"})
        right == \/ Own.marginRight = "auto"
                 \/ (OwnInline /\ Parent.textAlign = "center")
    IN  IF left /\ right THEN "CENTER" ELSE IF left THEN "MAX" ELSE "SCALE"

\* The vertical result of the margins and the inline adjustment alone.
MarginVertical ==
    LET top == \/ Own.marginTop = "auto"
               \/ (OwnInline /\ Own.verticalAlign \in {"middle", "bottom"})
        bottom == \/ (Own.marginBottom = "auto"
                        /\ ~(OwnInline /\ Own.verticalAlign = "bottom"))
                  \/ (OwnInline /\ Own.verticalAlign = "middle")
    IN  IF top /\ bottom THEN "CENTER" ELSE IF top THEN "MAX" ELSE "MIN"

C10_ParentTextAlign ==
    (/\ outcome = "returned"
     /\ nodeType[1] = "FRAME"
     /\ OwnInline
     /\ Parent.display \notin {"flex", "inline-flex"})
        =>
        /\ Parent.textAlign = "right" => constraints[1].horizontal = "MAX"
        /\ Parent.textAlign = "center" => constraints[1].horizontal = "CENTER"

----------------------------------------------------------------------------
(* Border decomposer                                                       *)

Letters ==
    {"a", "b", "c", "d", "e", "f", "g", "h", "i", "j", "k", "l", "m",
     "n", "o", "p", "q", "r", "s", "t", "u", "v", "w", "x", "y", "z",
     "A", "B", "C", "D", "E", "F", "G", "H", "I", "J", "K", "L", "M",
     "N", "O", "P", "Q", "R", "S", "T", "U", "V", "W", "X", "Y", "Z"}
WordChars == Letters \cup Digits \cup {"_"}
LineTerminators == {"\n", "\r"}

\* The length of the longest prefix of s made of characters of `class`.
RECURSIVE PrefixLen(_, _)
PrefixLen(s, class) ==
    IF Len(s) > 0 /\ CharAt(s, 1) \in class
    THEN 1 + PrefixLen(SubSeq(s, 2, Len(s)), class)
    ELSE 0

Drop(s, k) == SubSeq(s, k + 1, Len(s))

NoMatch == [matched |-> FALSE, borderWidth |-> "", type |-> "", color |-> ""]

\* str.match(/^([\d\.]+)px\s*(\w+)\s*(.*)$/).  Every quantifier is greedy
\* and none can give a character back to the token after it, so the
\* groups are the longest runs.
MatchBorder(str) ==
    LET w == PrefixLen(str, Digits \cup {"."})
        afterWidth == Drop(str, w)
        afterPx == Drop(afterWidth, 2)
        afterSpace == Drop(afterPx, PrefixLen(afterPx, Whitespace))
        t == PrefixLen(afterSpace, WordChars)
        afterType == Drop(afterSpace, t)
        rest == Drop(afterType, PrefixLen(afterType, Whitespace))
    IN  IF /\ w >= 1
           /\ SubSeq(afterWidth, 1, 2) = "px"
           /\ t >= 1
           /\ \A i \in 1..Len(rest) : CharAt(rest, i) \notin LineTerminators
        THEN [matched |-> TRUE, borderWidth |-> SubSeq(str, 1, w),
              type |-> SubSeq(afterSpace, 1, t), color |-> rest]
        ELSE NoMatch

\* Numbers: thousandths, or NaN.
NaN == [nan |-> TRUE, milli |-> 0]
Num(v) == [nan |-> FALSE, milli |-> v]
Minus(a, b) == IF a.nan \/ b.nan THEN NaN ELSE Num(a.milli - b.milli)

DigitValue(c) == CHOOSE d \in 0..9 : CharAt("0123456789", d + 1) = c

RECURSIVE DigitsValue(_)
DigitsValue(s) ==
    IF s = "" THEN 0
    ELSE 10 * DigitsValue(SubSeq(s, 1, Len(s) - 1)) + DigitValue(CharAt(s, Len(s)))

\* parseFloat on a string of digits and dots (all the regular expression
\* lets through): the integer digits, then one dot and its digits; NaN
\* when there is no digit.  Fractions are kept to three places.
ParseFloat(s) ==
    LET i == PrefixLen(s, Digits)
        afterInt == Drop(s, i)
        hasDot == Len(afterInt) > 0 /\ CharAt(afterInt, 1) = "."
        f == IF hasDot THEN PrefixLen(Drop(afterInt, 1), Digits) ELSE 0
        frac == SubSeq(SubSeq(afterInt, 2, 1 + f) \o "000", 1, 3)
    IN  IF i = 0 /\ f = 0 THEN NaN
        ELSE Num(1000 * DigitsValue(SubSeq(s, 1, i)) + DigitsValue(frac))

\* Math.round: to the nearest integer, halves upward.
Round(x) == IF x.nan THEN NaN ELSE Num(1000 * ((x.milli + 500) \div 1000))

\* getRgb(color): the colour as {r, g, b} in [0, 1] and its alpha in
\* [0, 1] when the string carries one; NoColor when it does not parse.
NoColor == [ok |-> FALSE, r |-> 0, g |-> 0, b |-> 0, hasAlpha |-> FALSE, a |-> 0]
Rgb(r, g, b) == [ok |-> TRUE, r |-> r, g |-> g, b |-> b, hasAlpha |-> FALSE, a |-> 0]
Rgba(r, g, b, a) == [ok |-> TRUE, r |-> r, g |-> g, b |-> b, hasAlpha |-> TRUE, a |-> a]
GetRgb(color) ==
    CASE color = "red" -> Rgb(1000, 0, 0)
      [] color = "rgb(255, 0, 0)" -> Rgb(1000, 0, 0)
      [] color = "rgba(0, 0, 0, 0.5)" -> Rgba(0, 0, 0, 500)
      [] color = "rgba(0, 0, 0, 0)" -> Rgba(0, 0, 0, 0)
      [] color = "rgba(0, 0, 0, 1)" -> Rgba(0, 0, 0, 1000)
      [] OTHER -> NoColor

\* rgb.a || 1
Opacity(rgb) == IF rgb.hasAlpha /\ rgb.a # 0 THEN rgb.a ELSE 1000

\* { type: "SOLID", color: { r, b, g }, opacity: rgb.a || 1 }
SolidPaint(rgb) ==
    [type |-> "SOLID", color |-> [r |-> rgb.r, b |-> rgb.b, g |-> rgb.g],
     opacity |-> Opacity(rgb)]

Sides == {"top", "left", "right", "bottom"}

\* capitalize(str)
Capitalize(str) ==
    LET lower == "abcdefghijklmnopqrstuvwxyz"
        upper == "ABCDEFGHIJKLMNOPQRSTUVWXYZ"
        c == CharAt(str, 1)
    IN  (IF \E i \in 1..26 : CharAt(lower, i) = c
         THEN CharAt(upper, CHOOSE i \in 1..26 : CharAt(lower, i) = c)
         ELSE c) \o SubSeq(str, 2, Len(str))

\* if (borderWidth && borderWidth !== "0" && type !== "none" && color)
Drawn(parsed) ==
    /\ parsed.matched
    /\ Truthy(parsed.borderWidth)
    /\ parsed.borderWidth # "0"
    /\ parsed.type # "none"
    /\ Truthy(parsed.color)

\* The rectangle pushed for side `dir`.
BorderRectangle(dir, borderWidth, rgb) ==
    LET width == IF dir \in {"top", "bottom"}
                 THEN Num(rect.width) ELSE ParseFloat(borderWidth)
        height == IF dir \in {"left", "right"}
                  THEN Num(rect.height) ELSE ParseFloat(borderWidth)
    IN  [ref |-> "el", type |-> "RECTANGLE",
         x |-> IF dir = "left" THEN Minus(Num(rect.left), width)
               ELSE IF dir = "right" THEN Num(rect.right)
               ELSE Num(rect.left),
         y |-> IF dir = "top" THEN Minus(Num(rect.top), height)
               ELSE IF dir = "bottom" THEN Num(rect.bottom)
               ELSE Num(rect.top),
         width |-> width, height |-> height,
         fills |-> <<SolidPaint(rgb)>>]

\* addStrokesFromIndividualBorders({dir, rect, computedStyle, layers, el})
AddStrokesFromIndividualBorders(dir) ==
    /\ Len(called) < MaxCalls
    /\ LET computed == computedStyle["border" \o Capitalize(dir)]
           parsed == IF Truthy(computed) THEN MatchBorder(computed) ELSE NoMatch
           rgb == IF Drawn(parsed) THEN GetRgb(parsed.color) ELSE NoColor
       IN  /\ blayers' = IF rgb.ok
                         THEN Append(blayers,
                                     BorderRectangle(dir, parsed.borderWidth, rgb))
                         ELSE blayers
           /\ called' = Append(called,
                               [fn |-> "side", dir |-> dir,
                                pushed |-> IF rgb.ok THEN Len(blayers) + 1 ELSE 0])
    /\ UNCHANGED <<computedStyle, rect, rectNode>>
    /\ UNCHANGED constraintVars
    /\ UNCHANGED readerVars

\* addStrokesFromBorder({computedStyle: {border}, rectNode})
AddStrokesFromBorder ==
    /\ Len(called) < MaxCalls
    /\ LET border == computedStyle["border"]
           parsed == IF Truthy(border) THEN MatchBorder(border) ELSE NoMatch
           rgb == IF Drawn(parsed) THEN GetRgb(parsed.color) ELSE NoColor
       IN  /\ rectNode' = IF rgb.ok
                          THEN [rectNode EXCEPT
                                  !.strokes = <<SolidPaint(rgb)>>,
                                  !.strokeWeight = Round(ParseFloat(parsed.borderWidth))]
                          ELSE rectNode
           /\ called' = Append(called,
                               [fn |-> "border", dir |-> "",
                                pushed |-> IF rgb.ok THEN 1 ELSE 0])
    /\ UNCHANGED <<computedStyle, rect, blayers>>
    /\ UNCHANGED constraintVars
    /\ UNCHANGED readerVars

\* The border strings a style declaration is drawn from: every
\* "<width>px <style> <color>", a missing string and one that starts with a
\* keyword width.
BorderWidths == {"0", "2", "3.6", "0.0"}
BorderStyles == {"none", "solid"}
BorderColors ==
    {"red", "rgba(0, 0, 0, 0.5)", "rgba(0, 0, 0, 0)", "color(bogus)", ""}
BorderStrings ==
    {w \o "px " \o st \o (IF c = "" THEN "" ELSE " " \o c) :
        w \in BorderWidths, st \in BorderStyles, c \in BorderColors}
    \cup {"", "medium solid red"}

Boxes ==
    {[top |-> 10000, left |-> 20000, right |-> 120000, bottom |-> 60000,
      width |-> 100000, height |-> 50000]}

StyledSides == {{}, {"top"}, {"left", "right"}, Sides}

\* One element: the sides in `styled` carry the border string str, the
\* others the border of an unstyled element.
InitBorders ==
    /\ \E str \in BorderStrings, styled \in StyledSides :
          computedStyle =
              [p \in {"border"} \cup {"border" \o Capitalize(d) : d \in Sides} |->
                  IF p = "border"
                  THEN str
                  ELSE IF \E d \in styled : p = "border" \o Capitalize(d)
                       THEN str
                       ELSE "0px none rgb(255, 0, 0)"]
    /\ rect \in Boxes
    /\ blayers = <<>>
    /\ rectNode = [strokes |-> <<>>, strokeWeight |-> Num(0)]
    /\ called = <<>>
    /\ IdleConstraints
    /\ IdleReader

NextBorders ==
    \/ \E dir \in Sides : AddStrokesFromIndividualBorders(dir)
    \/ AddStrokesFromBorder
SpecBorders == InitBorders /\ [][NextBorders]_vars

\* The text of the side a call read.
StringOf(call) ==
    IF call.fn = "border" THEN computedStyle["border"]
    ELSE computedStyle["border" \o Capitalize(call.dir)]

\* The claim's condition for a rectangle: the string matches
\* "<width>px <style> <color>", the width is a number other than zero, the
\* style is not none and the colour resolves.
Qualifies(str) ==
    LET parsed == MatchBorder(str)
        width == ParseFloat(parsed.borderWidth)
    IN  /\ parsed.matched
        /\ ~width.nan
        /\ width.milli # 0
        /\ parsed.type # "none"
        /\ GetRgb(parsed.color).ok

\* C6: each call of addStrokesFromIndividualBorders appends exactly one
\* rectangle when its side's border string qualifies and leaves layers
\* unchanged in every other case: layers holds as many rectangles as there
\* were calls on qualifying sides.
C6_OneRectanglePerQualifyingSide ==
    /\ Len(blayers) =
          Cardinality({i \in DOMAIN called :
                          called[i].fn = "side" /\ Qualifies(StringOf(called[i]))})
    /\ \A i \in DOMAIN called :
          called[i].fn = "side" =>
              (called[i].pushed > 0 <=> Qualifies(StringOf(called[i])))

\* The opacity the claim gives a paint of colour rgb.
AlphaOf(rgb) == IF rgb.hasAlpha THEN rgb.a ELSE 1000

\* C7: in both border modes the opacity of the emitted solid paint is the
\* resolved colour's alpha, and 1 when the colour carries no alpha.
C7_OpacityIsAlpha ==
    \A i \in DOMAIN called :
        called[i].pushed > 0 =>
            LET rgb == GetRgb(MatchBorder(StringOf(called[i])).color)
                paint == IF called[i].fn = "side"
                         THEN blayers[called[i].pushed].fills[1]
                         ELSE rectNode.strokes[1]
            IN  paint.opacity = AlphaOf(rgb)

----------------------------------------------------------------------------
(* getAppliedComputedStyles                                                *)

\* const list
List ==
    <<"opacity", "backgroundColor", "border", "borderTop", "borderLeft",
      "borderRight", "borderBottom", "borderRadius", "backgroundImage",
      "borderColor", "boxShadow">>
ListNames == {List[i] : i \in DOMAIN List}

\* const defaults, for an element whose resolved color is `color`
Defaults(color) ==
    [transform |-> "none", opacity |-> "1", borderRadius |-> "0px",
     backgroundImage |-> "none", backgroundPosition |-> "0% 0%",
     backgroundSize |-> "auto", backgroundColor |-> "rgba(0, 0, 0, 0)",
     backgroundAttachment |-> "scroll",
     border |-> "0px none " \o color,
     borderTop |-> "0px none " \o color,
     borderBottom |-> "0px none " \o color,
     borderLeft |-> "0px none " \o color,
     borderRight |-> "0px none " \o color,
     borderWidth |-> "0px", borderColor |-> color, borderStyle |-> "none",
     boxShadow |-> "none", fontWeight |-> "400", textAlign |-> "start",
     justifyContent |-> "normal", alignItems |-> "normal",
     alignSelf |-> "auto", flexGrow |-> "0",
     textDecoration |-> "none solid " \o color,
     lineHeight |-> "normal", letterSpacing |-> "normal",
     backgroundRepeat |-> "repeat", zIndex |-> "auto"]

\* pick without the test `if (object[path])`
PickDiffering(object, paths, defaults) ==
    LET kept == {i \in DOMAIN paths : object[paths[i]] # defaults[paths[i]]}
    IN  [path \in {paths[i] : i \in kept} |-> object[path]]
\* pick(object, paths), reading the enclosing `defaults`
Pick(object, paths, defaults) ==
    LET kept == {i \in DOMAIN paths :
                    /\ Truthy(object[paths[i]])
                    /\ object[paths[i]] # defaults[paths[i]]}
    IN  [path \in {paths[i] : i \in kept} |-> object[path]]

\* element instanceof HTMLElement || element instanceof SVGElement
IsRenderingHost(e) == e.kind \in {"HTMLElement", "SVGElement"}

\* getAppliedComputedStyles(element, pseudo); element.styles is the
\* declaration getComputedStyle resolves for the element and the pseudo.
GetAppliedComputedStyles ==
    /\ readerCalls = 0
    /\ applied' = IF ~IsRenderingHost(element) THEN <<>>
                  ELSE Pick(element.styles, List, Defaults(element.styles.color))
    /\ readerCalls' = readerCalls + 1
    /\ UNCHANGED element
    /\ UNCHANGED constraintVars
    /\ UNCHANGED borderVars

\* A value of property p that is not its baseline for any colour below.
Changed(p) ==
    CASE p = "opacity" -> "0.5"
      [] p = "backgroundColor" -> "rgb(255, 0, 0)"
      [] p = "borderRadius" -> "4px"
      [] p = "backgroundImage" -> "url(\"a.png\")"
      [] p = "borderColor" -> "rgb(0, 128, 0)"
      [] p = "boxShadow" -> "rgb(0, 0, 0) 0px 1px 2px 0px"
      [] OTHER -> "1px solid rgb(0, 128, 0)"

\* Elements whose resolved styles leave the baseline in at most
\* MaxDeviations of the listed properties, each by an empty value or by a
\* changed one.
InitReader ==
    /\ \E kind \in {"HTMLElement", "SVGElement", "Element"},
          color \in {"rgb(0, 0, 0)", "rgb(255, 0, 0)"},
          D \in {S \in SUBSET ListNames : Cardinality(S) <= MaxDeviations} :
          \E how \in [D -> {"empty", "changed"}] :
              element =
                  [kind |-> kind,
                   styles |->
                      [p \in ListNames \cup {"color"} |->
                          IF p = "color" THEN color
                          ELSE IF p \notin D THEN Defaults(color)[p]
                          ELSE IF how[p] = "empty" THEN ""
                          ELSE Changed(p)]]
    /\ applied = <<>>
    /\ readerCalls = 0
    /\ IdleConstraints
    /\ IdleBorders

NextReader == GetAppliedComputedStyles
SpecReader == InitReader /\ [][NextReader]_vars

\* The baseline of listed property p for the element at hand.
Baseline(p) ==
    IF p \in {"border", "borderTop", "borderLeft", "borderRight", "borderBottom"}
    THEN "0px none " \o element.styles.color
    ELSE IF p = "borderColor" THEN element.styles.color
    ELSE IF p = "opacity" THEN "1"
    ELSE IF p = "borderRadius" THEN "0px"
    ELSE IF p = "backgroundColor" THEN "rgba(0, 0, 0, 0)"
    ELSE "none"

\* C8 as stated: the mapping returned for a rendering host element holds
\* exactly the listed properties whose resolved value differs from the
\* baseline, each with its resolved value; for any other element it is
\* empty.
C8_ExactlyTheDiffering ==
    readerCalls = 1 =>
        IF IsRenderingHost(element)
        THEN /\ DOMAIN applied =
                    {p \in ListNames : element.styles[p] # Baseline(p)}
             /\ \A p \in DOMAIN applied : applied[p] = element.styles[p]
        ELSE DOMAIN applied = {}

\* C8 amended: the mapping holds exactly the listed properties whose
\* resolved value is not empty and differs from the baseline, each with
\* its resolved value; it is empty when every value is empty or at its
\* baseline, and for an element that is not a rendering host.
C8_ExactlyTheNonEmptyDiffering ==
    readerCalls = 1 =>
        IF IsRenderingHost(element)
        THEN /\ DOMAIN applied =
                    {p \in ListNames :
                        /\ element.styles[p] # ""
                        /\ element.styles[p] # Baseline(p)}
             /\ \A p \in DOMAIN applied : applied[p] = element.styles[p]
        ELSE DOMAIN applied = {}

\* The reader has dropped an empty border and kept a changed opacity.
C8_Witness ==
    /\ readerCalls = 1
    /\ element.kind = "HTMLElement"
    /\ element.styles["border"] = ""
    /\ element.styles["opacity"] = "0.5"
    /\ DOMAIN applied = {"opacity"}

====
